---------------------------- MODULE Spec2Model ----------------------------
(***************************************************************************)
(* A model of the DFIR Copilot Splunk application:                         *)
(*   - bin/llmhandler.py: the streaming search command (chunking, prompt   *)
(*     assembly, the call to Ollama, summary extraction, result records);  *)
(*   - bin/dfircopilot_config_handler.py: the REST handler that lists and  *)
(*     edits local/dfirvault.conf;                                         *)
(*   - bin/save_llm_config.py: the REST handler that saves and lists       *)
(*     local/llm_config.json.                                              *)
(*                                                                         *)
(* Text is modelled as a run-length encoded string: a sequence of runs     *)
(* [c |-> character, n |-> repetitions].  The characters are a letter      *)
(* "a", a blank " ", "#", the newline "\n", and word tokens that stand     *)
(* for the words "Summary" and "SUMMARY" (7 characters each).  Error       *)
(* messages are single opaque tokens.                                      *)
(***************************************************************************)
EXTENDS Integers, Sequences, FiniteSets, TLC

VARIABLES
    \* ---- LLMHandlerCommand.stream (llmhandler.py) ----
    pc,                \* position of the generator: start/loop/synth/done/rejected
    self,              \* the options given on the command (self.chunk_size, ...)
    records,           \* the input records handed to stream()
    pos,               \* number of input records consumed so far
    event_buffer,      \* local event_buffer
    chunk_number,      \* local chunk_number
    previous_summary,  \* local previous_summary (None or a text)
    output,            \* the records yielded so far, in order
    llm_calls,         \* the POSTs made to {endpoint}/api/generate, in order
    config,            \* local config (result of _load_config)
    \* ---- files under the app root ----
    local_conf,        \* local/dfirvault.conf
    default_conf,      \* default/dfirvault.conf
    app_conf,          \* local/app.conf
    json_conf,         \* local/llm_config.json
    \* ---- DFIRVaultConfigHandler (dfircopilot_config_handler.py) ----
    h_request,         \* the last REST request served
    h_raised,          \* the exception that request ended with ("none" if none)
    h_confInfo,        \* confInfo['llm_config'] filled by handleList
    h_before,          \* the files as they were when the last request arrived
    \* ---- _extract_summary applied to one response ----
    x_pc, x_response, x_summary, x_lines,
    \* ---- _format_events applied to two lists of events ----
    f_pc, f_events, f_events2, f_text, f_text2

streamVars  == <<pc, self, records, pos, event_buffer, chunk_number,
                 previous_summary, output, llm_calls, config>>
fileVars    == <<local_conf, default_conf, app_conf, json_conf>>
handlerVars == <<h_request, h_raised, h_confInfo, h_before>>
extractVars == <<x_pc, x_response, x_summary, x_lines>>
formatVars  == <<f_pc, f_events, f_events2, f_text, f_text2>>
vars == <<streamVars, fileVars, handlerVars, extractVars, formatVars>>

(***************************************************************************)
(* Bounds of the model.                                                    *)
(***************************************************************************)
MaxRecords == 4        \* longest input stream
MaxChunk   == 3        \* largest chunk_size tried besides the validator's limits
MaxLines   == 4        \* most lines in a response given to _extract_summary
MaxTail    == 7        \* most lines after the marker line of a long response
MaxTempRecords == 2    \* most input records of a run with a chosen temperature
MaxFields  == 3        \* most fields in an event given to _format_events

(***************************************************************************)
(* Python's None and optional values: None is <<>>, a value v is <<v>>.    *)
(***************************************************************************)
None == <<>>
Some(v) == <<v>>

(***************************************************************************)
(* Text.                                                                   *)
(***************************************************************************)
Letter  == "a"
Space   == " "
Hash    == "#"
Newline == "\n"
MarkerWords == {"Summary", "SUMMARY"}
Whitespace  == {Space, Newline}

Run(c, n) == [c |-> c, n |-> n]
Str(c) == <<Run(c, 1)>>
EmptyText == <<>>

WordLen == 7
Width(c) == IF c \in MarkerWords THEN WordLen ELSE 1

RECURSIVE TextLen(_)
TextLen(t) == IF t = <<>> THEN 0 ELSE Head(t).n * Width(Head(t).c) + TextLen(Tail(t))

\* the canonical form: no empty run, no two adjacent runs of one character
RECURSIVE Norm(_)
Norm(t) ==
    IF t = <<>> THEN <<>>
    ELSE IF Head(t).n = 0 THEN Norm(Tail(t))
    ELSE LET rest == Norm(Tail(t)) IN
         IF rest # <<>> /\ Head(rest).c = Head(t).c
         THEN <<Run(Head(t).c, Head(t).n + Head(rest).n)>> \o Tail(rest)
         ELSE <<Head(t)>> \o rest

\* sep.join(parts)
RECURSIVE JoinRaw(_, _)
JoinRaw(parts, sep) ==
    IF parts = <<>> THEN <<>>
    ELSE IF Len(parts) = 1 THEN Head(parts)
    ELSE Head(parts) \o sep \o JoinRaw(Tail(parts), sep)

Join(parts, sep) == Norm(JoinRaw(parts, sep))

\* text[:k]; a word cut in the middle leaves letters
RECURSIVE Take(_, _)
Take(t, k) ==
    IF t = <<>> \/ k <= 0 THEN <<>>
    ELSE LET r == Head(t)
             w == Width(r.c)
         IN IF r.n * w <= k
            THEN Norm(<<r>> \o Take(Tail(t), k - r.n * w))
            ELSE Norm(<<Run(r.c, k \div w), Run(Letter, IF w = 1 THEN 0 ELSE k % w)>>)

\* text.strip()
RECURSIVE LStrip(_)
LStrip(t) == IF t # <<>> /\ Head(t).c \in Whitespace THEN LStrip(Tail(t)) ELSE t

RECURSIVE RStrip(_)
RStrip(t) ==
    IF t # <<>> /\ t[Len(t)].c \in Whitespace THEN RStrip(SubSeq(t, 1, Len(t) - 1)) ELSE t

Strip(t) == RStrip(LStrip(t))

\* text.split('\n'): cur is the line being read, acc the lines already closed
RECURSIVE SplitAcc(_, _, _)
SplitAcc(t, cur, acc) ==
    IF t = <<>> THEN Append(acc, cur)
    ELSE IF Head(t).c = Newline
         THEN SplitAcc(Tail(t), <<>>,
                       Append(acc, cur) \o [i \in 1..(Head(t).n - 1) |-> <<>>])
         ELSE SplitAcc(Tail(t), Append(cur, Head(t)), acc)

SplitLines(t) == SplitAcc(t, <<>>, <<>>)

\* 'Summary' in text or 'SUMMARY' in text
HasMarker(t) == \E i \in 1..Len(t) : t[i].c \in MarkerWords

\* line.startswith(c)
StartsWith(t, c) == t # <<>> /\ t[1].c = c

(***************************************************************************)
(* LLMHandlerCommand._extract_summary                                      *)
(***************************************************************************)
SummaryLimit == 5
FallbackLen  == 200

\* the loop over the lines: i is the next line, in_summary and summary_lines
\* are the loop's locals
RECURSIVE CollectSummary(_, _, _, _)
CollectSummary(lines, i, in_summary, summary_lines) ==
    IF i > Len(lines) THEN summary_lines
    ELSE IF HasMarker(lines[i]) THEN CollectSummary(lines, i + 1, TRUE, summary_lines)
    ELSE IF in_summary
         THEN LET kept == IF Strip(lines[i]) # <<>> /\ ~StartsWith(lines[i], Hash)
                          THEN Append(summary_lines, Strip(lines[i]))
                          ELSE summary_lines
              IN IF Len(kept) > SummaryLimit THEN kept
                 ELSE CollectSummary(lines, i + 1, TRUE, kept)
         ELSE CollectSummary(lines, i + 1, FALSE, summary_lines)

\* a variant of ExtractSummary that joins the lines without a blank
ExtractSummary_JoinNoSpace(response) ==
    IF HasMarker(response)
    THEN Join(CollectSummary(SplitLines(response), 1, FALSE, <<>>), EmptyText)
    ELSE Strip(Take(response, FallbackLen))

Fallback(response) == Strip(Take(response, FallbackLen))

ExtractSummary(response) ==
    IF HasMarker(response)
    THEN Join(CollectSummary(SplitLines(response), 1, FALSE, <<>>), Str(Space))
    ELSE Fallback(response)

(***************************************************************************)
(* Input records.  A record is a Python dict: here the sequence of its     *)
(* fields in insertion order, with distinct keys.  A field name is the     *)
(* sequence of its code points, so that sorted() orders names as Python    *)
(* orders strings.                                                         *)
(***************************************************************************)
Underscore == 95
KeyTime  == <<95, 116, 105, 109, 101>>     \* "_time"
KeyRaw   == <<95, 114, 97, 119>>           \* "_raw"
KeySi    == <<95, 115, 105>>               \* "_si"
KeyHost  == <<104, 111, 115, 116>>         \* "host"
KeyUser  == <<85, 115, 101, 114>>          \* "User"
AllowListed == {KeyTime, KeyRaw}

Field(k, v) == [key |-> k, value |-> v]

\* a < b for two names, as Python compares str
RECURSIVE KeyLess(_, _)
KeyLess(a, b) ==
    IF b = <<>> THEN FALSE
    ELSE IF a = <<>> THEN TRUE
    ELSE IF Head(a) # Head(b) THEN Head(a) < Head(b)
    ELSE KeyLess(Tail(a), Tail(b))

HasKey(event, k) == \E i \in 1..Len(event) : event[i].key = k
Get(event, k) == event[CHOOSE i \in 1..Len(event) : event[i].key = k].value

\* a variant of SortedItems that keeps the insertion order
SortedItems_Unsorted(event) == event

\* sorted(event.items())
RECURSIVE SortedItems(_)
SortedItems(event) ==
    IF event = <<>> THEN <<>>
    ELSE LET m == CHOOSE i \in 1..Len(event) :
                     \A j \in 1..Len(event) : j = i \/ KeyLess(event[i].key, event[j].key)
         IN <<event[m]>>
            \o SortedItems(SubSeq(event, 1, m - 1) \o SubSeq(event, m + 1, Len(event)))

\* not key.startswith('_') or key in ['_time', '_raw']
Shown(f) == ~(f.key # <<>> /\ Head(f.key) = Underscore) \/ f.key \in AllowListed

(***************************************************************************)
(* LLMHandlerCommand._format_events.  The text of one event is the         *)
(* sequence of its lines; the result is the sequence of the events' texts  *)
(* (the code joins them with "\n").                                        *)
(***************************************************************************)
FLine(tag, k, v) == [tag |-> tag, key |-> k, val |-> v]

FormatEvent(idx, event) ==
    <<FLine("Event", <<>>, idx)>>
    \o (IF HasKey(event, KeyTime)
        THEN <<FLine("Timestamp", <<>>, Get(event, KeyTime))>> ELSE <<>>)
    \o [i \in 1..Len(SelectSeq(SortedItems(event), Shown)) |->
          LET f == SelectSeq(SortedItems(event), Shown)[i]
          IN FLine("Field", f.key, f.value)]

FormatEvents(events) == [idx \in 1..Len(events) |-> FormatEvent(idx, events[idx])]

(***************************************************************************)
(* Configuration files.  A file is absent, or present and unreadable       *)
(* (open() raises), or a sequence of lines.  A line is a section header    *)
(* "[...]", a comment "# ...", a blank line, "key = value", or other text  *)
(* without "=".  A configuration is a Python dict: a function from the     *)
(* keys it holds to their values.  Values are kept as strings.             *)
(***************************************************************************)
Absent == [exists |-> FALSE, readable |-> FALSE, lines |-> <<>>]
Unreadable == [exists |-> TRUE, readable |-> FALSE, lines |-> <<>>]
File(lines) == [exists |-> TRUE, readable |-> TRUE, lines |-> lines]

CLine(kind, k, v) == [kind |-> kind, key |-> k, value |-> v]
Section(name) == CLine("section", name, "")
KV(k, v) == CLine("kv", k, v)

EmptyDict == [k \in {} |-> ""]
DictSet(d, k, v) == [x \in DOMAIN d \cup {k} |-> IF x = k THEN v ELSE d[x]]
DictGet(d, k, default) == IF k \in DOMAIN d THEN d[k] ELSE default

\* the loop over the lines of a file, shared by _load_config and _read_config:
\* every "key = value" line that is neither a comment nor a header sets a key
RECURSIVE ParseLines(_, _)
ParseLines(lines, d) ==
    IF lines = <<>> THEN d
    ELSE ParseLines(Tail(lines),
                    IF Head(lines).kind = "kv"
                    THEN DictSet(d, Head(lines).key, Head(lines).value)
                    ELSE d)

\* the first of local/dfirvault.conf, default/dfirvault.conf that exists
ChosenFile(local, default) ==
    IF local.exists THEN local ELSE IF default.exists THEN default ELSE Absent

\* LLMHandlerCommand._load_config: the defaults, then the chosen file over them
LoadDefaults ==
    [k \in {"endpoint", "model", "temperature", "max_tokens", "timeout",
            "chunk_size", "analysis_mode", "system_prompt"} |->
        CASE k = "endpoint"      -> "http://localhost:11434"
          [] k = "model"         -> "mistral"
          [] k = "temperature"   -> "0.7"
          [] k = "max_tokens"    -> "2000"
          [] k = "timeout"       -> "120"
          [] k = "chunk_size"    -> "10"
          [] k = "analysis_mode" -> "forensic"
          [] k = "system_prompt" -> "You are a cybersecurity and DFIR expert assistant."]

LoadConfig(local, default) ==
    LET f == ChosenFile(local, default)
    IN IF f.exists /\ f.readable THEN ParseLines(f.lines, LoadDefaults) ELSE LoadDefaults

\* int(v) and float(v) of a configuration value; they raise ValueError on
\* any other string
IntStrings == {"120", "5", "2000", "10"}
IntOf(v) == CASE v = "120" -> 120 [] v = "5" -> 5 [] v = "2000" -> 2000 [] v = "10" -> 10

\* temperatures are counted in tenths: 7 is 0.7
FloatStrings == {"0.7", "0.2"}
TenthsOf(v) == CASE v = "0.7" -> 7 [] v = "0.2" -> 2

(***************************************************************************)
(* LLMHandlerCommand._build_prompt.  The prompt is the sequence            *)
(* prompt_parts (the code joins it with "\n").                             *)
(***************************************************************************)
Part(tag, num, str, text) ==
    [tag |-> tag, num |-> num, str |-> str, text |-> text, events |-> <<>>]

ModeInstructions(mode) ==
    CASE mode = "summary"  -> "Provide a concise summary of key findings."
      [] mode = "detailed" -> "Provide detailed analysis of each significant event."
      [] mode = "forensic" -> "Focus on forensic artifacts, timeline reconstruction, and evidence preservation. Identify potential indicators of compromise."
      [] mode = "threat_intelligence" -> "Focus on threat actor TTPs, IOCs, and attribution indicators."
      [] OTHER -> ""

\* a variant of Truthy that only tests "is not None"
Truthy_NotNone(opt) == opt # None

\* previous_summary is truthy: neither None nor ''
Truthy(opt) == opt # None /\ opt[1] # EmptyText

BuildPrompt(formatted_events, chunk_no, prev_summary, cfg) ==
    LET system_prompt == DictGet(cfg, "system_prompt", "You are a DFIR expert.")
        analysis_mode == IF self.analysis_mode # "" THEN self.analysis_mode
                         ELSE DictGet(cfg, "analysis_mode", "forensic")
    IN <<Part("System", 0, system_prompt, EmptyText),
         Part("Analysis Mode", 0, analysis_mode, EmptyText),
         Part("Instructions", 0, ModeInstructions(analysis_mode), EmptyText),
         Part("User Question", 0, self.prompt, EmptyText)>>
       \o (IF Truthy(prev_summary) /\ chunk_no > 1
           THEN <<Part("Previous Analysis Context", chunk_no - 1, "", EmptyText),
                  Part("previous_summary", 0, "", prev_summary[1]),
                  Part("Now analyzing Chunk", chunk_no, "", EmptyText)>>
           ELSE <<Part("Analyzing Chunk", chunk_no, "", EmptyText)>>)
       \o <<[Part("formatted_events", 0, "", EmptyText) EXCEPT !.events = formatted_events]>>
       \o [i \in 1..5 |-> Part("Outline", i - 1, "", EmptyText)]

(***************************************************************************)
(* LLMHandlerCommand._call_ollama.  reply is what the server does with the *)
(* POST: it answers 200 with a JSON body that holds "response" or lacks    *)
(* it, or the request times out, cannot connect, or fails otherwise.       *)
(* The result says whether an exception was raised, the text returned or   *)
(* the exception's message, and the request if one was sent.               *)
(***************************************************************************)
NoResponseGenerated ==
    <<Run(Letter, 2), Run(Space, 1), Run(Letter, 8), Run(Space, 1), Run(Letter, 9)>>
ErrTimeout    == Str("Request to LLM timed out")
ErrConnect    == Str("Cannot connect to Ollama")
ErrRequest    == Str("LLM API error")
ErrValue      == Str("ValueError")

Ok(body) == [kind |-> "ok", body |-> body]
Fails(kind) == [kind |-> kind, body |-> None]

CallOllama(endpoint, model, prompt, cfg, reply) ==
    LET temp_ok == self.temperature # 0
                   \/ DictGet(cfg, "temperature", "0.7") \in FloatStrings
        tokens_ok == self.max_tokens # 0
                   \/ DictGet(cfg, "max_tokens", "2000") \in IntStrings
        timeout_ok == DictGet(cfg, "timeout", "120") \in IntStrings
    IN IF ~(temp_ok /\ tokens_ok /\ timeout_ok)
       THEN [raised |-> TRUE, value |-> ErrValue, call |-> None]
       ELSE LET payload ==
                  [url |-> endpoint, model |-> model, prompt |-> prompt, stream |-> FALSE,
                   options |->
                     [temperature |-> IF self.temperature # 0 THEN self.temperature
                                      ELSE TenthsOf(DictGet(cfg, "temperature", "0.7")),
                      num_predict |-> IF self.max_tokens # 0 THEN self.max_tokens
                                      ELSE IntOf(DictGet(cfg, "max_tokens", "2000"))],
                   timeout |-> IntOf(DictGet(cfg, "timeout", "120"))]
            IN CASE reply.kind = "ok" ->
                      [raised |-> FALSE,
                       value |-> IF reply.body = None THEN NoResponseGenerated
                                 ELSE reply.body[1],
                       call |-> Some(payload)]
                 [] reply.kind = "timeout" ->
                      [raised |-> TRUE, value |-> ErrTimeout, call |-> Some(payload)]
                 [] reply.kind = "connection" ->
                      [raised |-> TRUE, value |-> ErrConnect, call |-> Some(payload)]
                 [] OTHER ->
                      [raised |-> TRUE, value |-> ErrRequest, call |-> Some(payload)]

(***************************************************************************)
(* An analysis result is a Python dict; a key it lacks is None here.       *)
(***************************************************************************)
IntId(k) == [tag |-> "int", num |-> k, str |-> ""]
StrId(s) == [tag |-> "str", num |-> 0, str |-> s]
PyStr(id) == IF id.tag = "int" THEN ToString(id.num) ELSE id.str

Result(chunk, event_count, response, summary, error, status) ==
    [chunk |-> chunk, event_count |-> event_count, response |-> response,
     summary |-> summary, error |-> error, status |-> status]

\* a variant of _process_chunk without its try/except
ProcessChunk_NoCatch(events, chunk_no, prev_summary, endpoint, model, cfg, reply) ==
    LET full_prompt == BuildPrompt(FormatEvents(events), chunk_no, prev_summary, cfg)
        r == CallOllama(endpoint, model, full_prompt, cfg, reply)
    IN [raised |-> r.raised, exc |-> r.value, call |-> r.call,
        result |-> Result(IntId(chunk_no), Some(Len(events)), Some(r.value),
                          Some(ExtractSummary(r.value)), None, "success")]

\* LLMHandlerCommand._process_chunk: the outcome says whether an exception
\* left the method, the result it returned, and the request it sent
ProcessChunk(events, chunk_no, prev_summary, endpoint, model, cfg, reply) ==
    LET full_prompt == BuildPrompt(FormatEvents(events), chunk_no, prev_summary, cfg)
        r == CallOllama(endpoint, model, full_prompt, cfg, reply)
    IN [raised |-> FALSE, exc |-> EmptyText, call |-> r.call,
        result |->
          IF ~r.raised
          THEN Result(IntId(chunk_no), Some(Len(events)), Some(r.value),
                      Some(ExtractSummary(r.value)), None, "success")
          ELSE Result(IntId(chunk_no), Some(Len(events)), None, None,
                      Some(r.value), "error")]

\* LLMHandlerCommand._generate_final_synthesis
FinalSummary ==
    <<Run(Letter, 5), Run(Space, 1), Run(Letter, 9), Run(Space, 1), Run(Letter, 6),
      Run(Space, 1), Run(Letter, 3), Run(Space, 1), Run(Letter, 8), Run(Space, 1),
      Run(Letter, 6)>>

\* a variant of _generate_final_synthesis without its try/except
GenerateFinalSynthesis_NoCatch(total_chunks, endpoint, model, cfg, reply) ==
    LET synthesis_prompt == <<Part("Synthesis", total_chunks, self.prompt, EmptyText)>>
        r == CallOllama(endpoint, model, synthesis_prompt, cfg, reply)
    IN [raised |-> r.raised, exc |-> r.value, call |-> r.call,
        result |-> Result(StrId("FINAL"), Some(total_chunks), Some(r.value),
                          Some(FinalSummary), None, "success")]

GenerateFinalSynthesis(total_chunks, endpoint, model, cfg, reply) ==
    LET synthesis_prompt == <<Part("Synthesis", total_chunks, self.prompt, EmptyText)>>
        r == CallOllama(endpoint, model, synthesis_prompt, cfg, reply)
    IN [raised |-> FALSE, exc |-> EmptyText, call |-> r.call,
        result |->
          IF ~r.raised
          THEN Result(StrId("FINAL"), Some(total_chunks), Some(r.value),
                      Some(FinalSummary), None, "success")
          ELSE Result(StrId("FINAL"), None, None, None, Some(r.value), "error")]

\* LLMHandlerCommand._create_result_record (without _time)
NoResponse == <<Run(Letter, 2), Run(Space, 1), Run(Letter, 8)>>

\* a variant of _create_result_record that reads the event count under a key
\* the results do not hold
CreateResultRecord_NoCount(result, chunk_id) ==
    [llm_chunk |-> Some(PyStr(chunk_id)),
     llm_status |-> result.status,
     llm_event_count |-> 0,
     llm_response |-> IF result.response # None THEN result.response[1]
                      ELSE IF result.error # None THEN result.error[1] ELSE NoResponse,
     llm_summary |-> result.summary,
     llm_error |-> None]

CreateResultRecord(result, chunk_id) ==
    [llm_chunk |-> Some(PyStr(chunk_id)),
     llm_status |-> result.status,
     llm_event_count |-> IF result.event_count # None THEN result.event_count[1] ELSE 0,
     llm_response |-> IF result.response # None THEN result.response[1]
                      ELSE IF result.error # None THEN result.error[1] ELSE NoResponse,
     llm_summary |-> result.summary,
     llm_error |-> None]

\* the record yielded by stream's own except clause (lines 132-138)
CommandError(exc) ==
    [llm_chunk |-> None, llm_status |-> "error", llm_event_count |-> 0,
     llm_response |-> EmptyText, llm_summary |-> None, llm_error |-> Some(exc)]

(***************************************************************************)
(* LLMHandlerCommand.stream, one action per step of the generator.         *)
(***************************************************************************)
ChunkSizeMin == 1
ChunkSizeMax == 1000

\* the input record number i
InputRecord(i) == <<Field(KeyTime, i), Field(KeyHost, i)>>
Input(L) == [i \in 1..L |-> InputRecord(i)]

\* the replies the Ollama server may give to one POST: a body whose
\* "response" is one of Responses, a body without "response" (the text is
\* then "No response generated", which holds no marker), or a failure
Responses ==
    { <<Run("Summary", 1), Run(Newline, 1), Run(Letter, 1)>>,   \* a marker and a line
      <<Run("SUMMARY", 1)>>,                                    \* a marker and no line
      EmptyText }
Replies ==
    {Ok(Some(t)) : t \in Responses} \cup {Ok(None)}
    \cup {Fails("timeout"), Fails("connection"), Fails("http_error")}

Endpoint == DictGet(config, "endpoint", "http://localhost:11434")
Model == IF self.model # None THEN self.model[1] ELSE DictGet(config, "model", "mistral")

\* a variant of the validator without its minimum
ValidChunkSize_NoMinimum(n) == n <= ChunkSizeMax

\* validators.Integer(minimum=1, maximum=1000) on the chunk_size option
ValidChunkSize(n) == ChunkSizeMin <= n /\ n <= ChunkSizeMax

\* the command is dispatched with options the validators reject: stream()
\* is never called
RejectOptions ==
    /\ pc = "start"
    /\ ~ValidChunkSize(self.chunk_size)
    /\ pc' = "rejected"
    /\ UNCHANGED <<self, records, pos, event_buffer, chunk_number, previous_summary,
                   output, llm_calls, config>>
    /\ UNCHANGED <<fileVars, handlerVars, extractVars, formatVars>>

\* lines 71-83: load the configuration, set the locals
StartStream ==
    /\ pc = "start"
    /\ ValidChunkSize(self.chunk_size)
    /\ config' = LoadConfig(local_conf, default_conf)
    /\ event_buffer' = <<>>
    /\ chunk_number' = 0
    /\ previous_summary' = None
    /\ pc' = "loop"
    /\ UNCHANGED <<self, records, pos, output, llm_calls>>
    /\ UNCHANGED <<fileVars, handlerVars, extractVars, formatVars>>

\* the outcome of a chunk or of the synthesis is yielded; an exception that
\* left the call is caught by stream's own except clause, which ends the run
Yield(r, chunk_id, next_pc) ==
    /\ llm_calls' = llm_calls \o r.call
    /\ IF r.raised
       THEN /\ output' = Append(output, CommandError(r.exc))
            /\ pc' = "done"
       ELSE /\ output' = Append(output, CreateResultRecord(r.result, chunk_id))
            /\ pc' = next_pc

\* lines 85-89: one turn of the loop that leaves the buffer short of a chunk
Accumulate ==
    /\ pc = "loop"
    /\ pos < Len(records)
    /\ ~(Len(event_buffer) + 1 >= self.chunk_size)
    /\ event_buffer' = Append(event_buffer, records[pos + 1])
    /\ pos' = pos + 1
    /\ UNCHANGED <<pc, self, records, chunk_number, previous_summary, output,
                   llm_calls, config>>
    /\ UNCHANGED <<fileVars, handlerVars, extractVars, formatVars>>

\* lines 85-107: one turn of the loop that fills the buffer and flushes it
FlushFull ==
    /\ pc = "loop"
    /\ pos < Len(records)
    /\ Len(event_buffer) + 1 >= self.chunk_size
    /\ \E reply \in Replies :
         LET r == ProcessChunk(Append(event_buffer, records[pos + 1]), chunk_number + 1,
                               previous_summary, Endpoint, Model, config, reply)
         IN /\ Yield(r, IntId(chunk_number + 1), "loop")
            /\ previous_summary' = IF r.result.summary # None THEN r.result.summary
                                   ELSE Some(EmptyText)
    /\ pos' = pos + 1
    /\ chunk_number' = chunk_number + 1
    /\ event_buffer' = <<>>
    /\ UNCHANGED <<self, records, config>>
    /\ UNCHANGED <<fileVars, handlerVars, extractVars, formatVars>>

\* lines 109-120: the input is exhausted and the buffer holds a partial chunk
FlushPartial ==
    /\ pc = "loop"
    /\ pos = Len(records)
    /\ event_buffer # <<>>
    /\ \E reply \in Replies :
         LET r == ProcessChunk(event_buffer, chunk_number + 1, previous_summary,
                               Endpoint, Model, config, reply)
         IN Yield(r, IntId(chunk_number + 1), "synth")
    /\ chunk_number' = chunk_number + 1
    /\ UNCHANGED <<self, records, pos, event_buffer, previous_summary, config>>
    /\ UNCHANGED <<fileVars, handlerVars, extractVars, formatVars>>

\* a variant of the end of the loop that drops a partial chunk
NoPartial_DropsPartial ==
    /\ pc = "loop"
    /\ pos = Len(records)
    /\ pc' = "synth"
    /\ UNCHANGED <<self, records, pos, event_buffer, chunk_number, previous_summary,
                   output, llm_calls, config>>
    /\ UNCHANGED <<fileVars, handlerVars, extractVars, formatVars>>

\* line 110: the input is exhausted and the buffer is empty
NoPartial ==
    /\ pc = "loop"
    /\ pos = Len(records)
    /\ event_buffer = <<>>
    /\ pc' = "synth"
    /\ UNCHANGED <<self, records, pos, event_buffer, chunk_number, previous_summary,
                   output, llm_calls, config>>
    /\ UNCHANGED <<fileVars, handlerVars, extractVars, formatVars>>

\* lines 122-130: more than one chunk was flushed
Synthesize ==
    /\ pc = "synth"
    /\ chunk_number > 1
    /\ \E reply \in Replies :
         LET r == GenerateFinalSynthesis(chunk_number, Endpoint, Model, config, reply)
         IN Yield(r, StrId("FINAL"), "done")
    /\ UNCHANGED <<self, records, pos, event_buffer, chunk_number, previous_summary,
                   config>>
    /\ UNCHANGED <<fileVars, handlerVars, extractVars, formatVars>>

\* line 123: at most one chunk was flushed
Finish ==
    /\ pc = "synth"
    /\ ~(chunk_number > 1)
    /\ pc' = "done"
    /\ UNCHANGED <<self, records, pos, event_buffer, chunk_number, previous_summary,
                   output, llm_calls, config>>
    /\ UNCHANGED <<fileVars, handlerVars, extractVars, formatVars>>

\* the options of the command: chunk_size ranges over small sizes and the
\* validator's limits, the others are the defaults
ChunkSizes == (0..MaxChunk) \cup {ChunkSizeMax, ChunkSizeMax + 1}
Options(n) ==
    [prompt |-> "q", model |-> None, chunk_size |-> n, analysis_mode |-> "forensic",
     max_tokens |-> 2000, temperature |-> 7]

NoRequest == [verb |-> "none", args |-> EmptyDict, probe |-> "none"]

IdleStream ==
    /\ pc = "idle" /\ self = Options(1) /\ records = <<>> /\ pos = 0
    /\ event_buffer = <<>> /\ chunk_number = 0 /\ previous_summary = None
    /\ output = <<>> /\ llm_calls = <<>> /\ config = EmptyDict
JsonAbsent == [exists |-> FALSE, data |-> EmptyDict]
JsonFile(data) == [exists |-> TRUE, data |-> data]

IdleFiles ==
    /\ local_conf = Absent /\ default_conf = Absent /\ app_conf = Absent
    /\ json_conf = JsonAbsent
IdleHandler ==
    /\ h_request = NoRequest /\ h_raised = "none" /\ h_confInfo = EmptyDict
    /\ h_before = <<Absent, Absent, Absent, JsonAbsent>>
IdleExtract ==
    /\ x_pc = "idle" /\ x_response = EmptyText /\ x_summary = EmptyText
    /\ x_lines = <<>>
IdleFormat ==
    /\ f_pc = "idle" /\ f_events = <<>> /\ f_events2 = <<>>
    /\ f_text = <<>> /\ f_text2 = <<>>


(***************************************************************************)
(* _extract_summary on its own: the response is drawn from the texts of    *)
(* at most MaxLines lines, each one of LineSet, joined by newlines, or a   *)
(* marker line followed by at most MaxTail lines, each one of TailSet.     *)
(***************************************************************************)
LongLine == 199
LineSet ==
    { EmptyText,                                               \* ""
      Str(Letter),                                             \* "a"
      <<Run(Space, 1), Run(Letter, 1)>>,                       \* " a"
      <<Run(Hash, 1), Run(Letter, 1)>>,                        \* "#a"
      <<Run(Space, 1), Run(Hash, 1)>>,                         \* " #"
      Str(Space),                                              \* " "
      Str("Summary"),                                          \* "Summary"
      <<Run(Letter, 1), Run(Space, 1), Run("SUMMARY", 1)>>,    \* "a SUMMARY"
      <<Run(Letter, LongLine)>> }                              \* "aaa...a"

LineSeqs == UNION {[1..k -> LineSet] : k \in 0..MaxLines}

TailSet == { Str(Letter), EmptyText, <<Run(Hash, 1), Run(Letter, 1)>> }
TailSeqs == UNION {[1..k -> TailSet] : k \in 0..MaxTail}
LongSeqs == { <<Str("Summary")>> \o tail : tail \in TailSeqs }

\* summary_lines when the loop of _extract_summary ends (empty when the
\* response has no marker and the loop is not entered)
SummaryLines(response) ==
    IF HasMarker(response)
    THEN CollectSummary(SplitLines(response), 1, FALSE, <<>>)
    ELSE <<>>

InitExtract ==
    /\ x_pc = "input"
    /\ \E lines \in LineSeqs \cup LongSeqs : x_response = Join(lines, Str(Newline))
    /\ x_summary = EmptyText
    /\ x_lines = <<>>
    /\ IdleStream /\ IdleFiles /\ IdleHandler /\ IdleFormat

ExtractStep ==
    /\ x_pc = "input"
    /\ x_summary' = ExtractSummary(x_response)
    /\ x_lines' = SummaryLines(x_response)
    /\ x_pc' = "done"
    /\ UNCHANGED <<x_response, streamVars, fileVars, handlerVars, formatVars>>

NextExtract == ExtractStep

SpecExtract == InitExtract /\ [][NextExtract]_vars

(***************************************************************************)
(* _format_events on its own: an event of at most MaxFields fields, and    *)
(* the same fields inserted in another order.                              *)
(***************************************************************************)
FieldKeys == {KeyTime, KeyRaw, KeySi, KeyHost, KeyUser}
FieldValues == {1, 2}
Events ==
    UNION { { e \in [1..k -> {Field(key, v) : key \in FieldKeys, v \in FieldValues}] :
                \A i, j \in 1..k : i # j => e[i].key # e[j].key }
            : k \in 0..MaxFields }
Reorderings(e) == { [i \in 1..Len(e) |-> e[p[i]]] : p \in Permutations(1..Len(e)) }

InitFormat ==
    /\ f_pc = "input"
    /\ \E e \in Events : \E e2 \in Reorderings(e) :
         f_events = <<e>> /\ f_events2 = <<e2>>
    /\ f_text = <<>> /\ f_text2 = <<>>
    /\ IdleStream /\ IdleFiles /\ IdleHandler /\ IdleExtract

FormatStep ==
    /\ f_pc = "input"
    /\ f_text' = FormatEvents(f_events)
    /\ f_text2' = FormatEvents(f_events2)
    /\ f_pc' = "done"
    /\ UNCHANGED <<f_events, f_events2, streamVars, fileVars, handlerVars, extractVars>>

NextFormat == FormatStep

SpecFormat == InitFormat /\ [][NextFormat]_vars

(***************************************************************************)
(* DFIRVaultConfigHandler (dfircopilot_config_handler.py).                 *)
(***************************************************************************)
\* the keys and defaults of config_keys (lines 148-159), in the order written
ConfigKeys ==
    <<"endpoint", "model", "temperature", "max_tokens", "timeout", "chunk_size",
      "max_context_events", "overlap_events", "analysis_mode", "system_prompt">>

DefaultOf(k) ==
    CASE k = "endpoint"           -> "http://localhost:11434"
      [] k = "model"              -> "mistral"
      [] k = "temperature"        -> "0.7"
      [] k = "max_tokens"         -> "2000"
      [] k = "timeout"            -> "120"
      [] k = "chunk_size"         -> "10"
      [] k = "max_context_events" -> "100"
      [] k = "overlap_events"     -> "2"
      [] k = "analysis_mode"      -> "forensic"
      [] k = "system_prompt"      -> "You are a cybersecurity and DFIR expert assistant."

\* the dict of the except clause of _read_config (lines 116-127)
HandlerDefaults == [k \in {ConfigKeys[i] : i \in 1..Len(ConfigKeys)} |-> DefaultOf(k)]

\* DFIRVaultConfigHandler._read_config: config starts empty, the chosen file
\* fills it, and only an exception replaces it by the defaults
ReadConfig(local, default) ==
    LET f == ChosenFile(local, default)
    IN IF ~f.exists THEN EmptyDict
       ELSE IF ~f.readable THEN HandlerDefaults
       ELSE ParseLines(f.lines, EmptyDict)

\* DFIRVaultConfigHandler._write_config: the content written to
\* local/dfirvault.conf; args maps each supplied key to its first value
WriteConfig(args) ==
    File(<<Section("llm_config")>>
         \o [i \in 1..Len(ConfigKeys) |->
               KV(ConfigKeys[i], IF ConfigKeys[i] \in DOMAIN args
                                 THEN args[ConfigKeys[i]]
                                 ELSE DefaultOf(ConfigKeys[i]))])

\* DFIRVaultConfigHandler._mark_configured: the content of local/app.conf
MarkConfigured == File(<<Section("install"), KV("is_configured", "true")>>)

\* DFIRVaultConfigHandler._test_ollama_connection: probe is the status of
\* GET {endpoint}/api/tags, or "error" when requests.get raises
TestOllamaConnection(probe) == probe = "200"

\* DFIRVaultConfigHandler._fetch_available_models, as json.dumps renders it
FetchAvailableModels(probe) == IF probe = "200" THEN "[\"mistral\"]" ELSE "[]"

Probes == {"200", "500", "error"}

\* the arguments of an edit: endpoint and model are required arguments, the
\* endpoint may be the empty string, chunk_size is optional
EditArgs ==
    { [k \in {"endpoint", "model"} |-> IF k = "endpoint" THEN e ELSE m] :
        e \in {"", "http://localhost:11434", "http://ollama:11434"},
        m \in {"mistral", "llama3"} }
    \cup
    { [k \in {"endpoint", "model", "chunk_size"} |->
         IF k = "endpoint" THEN e ELSE IF k = "model" THEN "mistral" ELSE "5"] :
        e \in {"", "http://ollama:11434"} }

\* handleList (lines 37-57)
HandleList ==
    \E probe \in Probes :
      /\ h_request' = [verb |-> "list", args |-> EmptyDict, probe |-> probe]
      /\ h_before' = <<local_conf, default_conf, app_conf, json_conf>>
      /\ h_confInfo' = DictSet(ReadConfig(local_conf, default_conf),
                               "available_models", FetchAvailableModels(probe))
      /\ h_raised' = "none"
      /\ UNCHANGED <<fileVars, streamVars, extractVars, formatVars>>

\* the exception handleEdit ends with: the BadRequestException of line 72 is
\* raised inside the try block, so the except clause of lines 80-81 catches
\* it and raises InternalException in its place
EditRaises(args, probe) ==
    IF args["endpoint"] # "" /\ ~TestOllamaConnection(probe)
    THEN "InternalException"
    ELSE "none"

\* handleEdit (lines 59-81); handleCreate calls it
HandleEdit ==
    \E args \in EditArgs, probe \in Probes :
      /\ h_request' = [verb |-> "edit", args |-> args,
                       probe |-> IF args["endpoint"] # "" THEN probe ELSE "none"]
      /\ h_before' = <<local_conf, default_conf, app_conf, json_conf>>
      /\ h_raised' = EditRaises(args, probe)
      /\ IF EditRaises(args, probe) = "none"
         THEN /\ local_conf' = WriteConfig(args)
              /\ app_conf' = MarkConfigured
         ELSE UNCHANGED <<local_conf, app_conf>>
      /\ UNCHANGED <<default_conf, json_conf, h_confInfo, streamVars, extractVars,
                     formatVars>>

(***************************************************************************)
(* SaveLLMConfigHandler (save_llm_config.py).                              *)
(***************************************************************************)
\* the arguments of a save: any of the supported arguments, each optional
PostArgs ==
    { EmptyDict,
      [k \in {"model"} |-> "llama3"],
      [k \in {"endpoint", "model"} |->
         IF k = "endpoint" THEN "http://ollama:11434" ELSE "llama3"],
      [k \in {"endpoint", "temperature"} |->
         IF k = "endpoint" THEN "http://localhost:11434" ELSE "0.2"] }

\* a variant of handlePost that also rewrites local/dfirvault.conf from the
\* saved values
HandlePost_AlsoWritesConf ==
    \E args \in PostArgs :
      /\ h_request' = [verb |-> "save", args |-> args, probe |-> "none"]
      /\ h_before' = <<local_conf, default_conf, app_conf, json_conf>>
      /\ json_conf' = JsonFile(args)
      /\ local_conf' = WriteConfig(args)
      /\ h_confInfo' = DictSet(EmptyDict, "message", "Configuration saved successfully.")
      /\ h_raised' = "none"
      /\ UNCHANGED <<default_conf, app_conf, streamVars, extractVars, formatVars>>

\* SaveLLMConfigHandler.handlePost (lines 15-26): config_data holds the first
\* value of every argument given and is dumped to local/llm_config.json
HandlePost ==
    \E args \in PostArgs :
      /\ h_request' = [verb |-> "save", args |-> args, probe |-> "none"]
      /\ h_before' = <<local_conf, default_conf, app_conf, json_conf>>
      /\ json_conf' = JsonFile(args)
      /\ h_confInfo' = DictSet(EmptyDict, "message", "Configuration saved successfully.")
      /\ h_raised' = "none"
      /\ UNCHANGED <<local_conf, default_conf, app_conf, streamVars, extractVars,
                     formatVars>>

\* SaveLLMConfigHandler.handleList (lines 28-34)
HandleJsonList ==
    /\ h_request' = [verb |-> "load", args |-> EmptyDict, probe |-> "none"]
    /\ h_before' = <<local_conf, default_conf, app_conf, json_conf>>
    /\ h_confInfo' = IF json_conf.exists THEN json_conf.data ELSE EmptyDict
    /\ h_raised' = "none"
    /\ UNCHANGED <<fileVars, streamVars, extractVars, formatVars>>

\* the files the app may start with
PackagedConf ==
    File(<<Section("llm_config"), CLine("comment", "", ""), KV("model", "llama3"),
           CLine("blank", "", ""), KV("timeout", "5")>>)
LocalConfs == {Absent, Unreadable, File(<<KV("endpoint", "http://ollama:11434")>>)}
DefaultConfs == {Absent, PackagedConf}

InitConfig ==
    /\ local_conf \in LocalConfs
    /\ default_conf \in DefaultConfs
    /\ app_conf = Absent
    /\ json_conf = JsonAbsent
    /\ IdleHandler /\ IdleStream /\ IdleExtract /\ IdleFormat

NextConfig == HandleList \/ HandleEdit \/ HandlePost \/ HandleJsonList

SpecConfig == InitConfig /\ [][NextConfig]_vars

(***************************************************************************)
(* The streaming command: a run starts with the options and the input      *)
(* given to it and with the packaged configuration file absent or         *)
(* holding a timeout that is no number.                                    *)
(***************************************************************************)
StreamConfs ==
    {Absent, File(<<Section("llm_config"), KV("model", "llama3"), KV("timeout", "soon")>>)}

Init ==
    /\ pc = "start"
    /\ \E n \in ChunkSizes : self = Options(n)
    /\ \E L \in 0..MaxRecords : records = Input(L)
    /\ pos = 0 /\ event_buffer = <<>> /\ chunk_number = 0 /\ previous_summary = None
    /\ output = <<>> /\ llm_calls = <<>> /\ config = EmptyDict
    /\ local_conf = Absent /\ default_conf \in StreamConfs /\ app_conf = Absent
    /\ json_conf = JsonAbsent
    /\ IdleHandler /\ IdleExtract /\ IdleFormat

Next ==
    \/ RejectOptions
    \/ StartStream
    \/ Accumulate
    \/ FlushFull
    \/ FlushPartial
    \/ NoPartial
    \/ Synthesize
    \/ Finish

Spec == Init /\ [][Next]_vars

(***************************************************************************)
(* The streaming command run with a chosen temperature: the option takes   *)
(* every value its validator admits, in tenths, and the packaged           *)
(* configuration file is absent or gives a temperature of its own.         *)
(***************************************************************************)
TemperatureMin == 0
TemperatureMax == 10
Temperatures == TemperatureMin..TemperatureMax

TempConfs ==
    {Absent, File(<<Section("llm_config"), KV("temperature", "0.2")>>)}

InitTemp ==
    /\ pc = "start"
    /\ \E n \in 0..MaxTempRecords, t \in Temperatures :
          self = [Options(n) EXCEPT !.temperature = t]
    /\ \E L \in 0..MaxTempRecords : records = Input(L)
    /\ pos = 0 /\ event_buffer = <<>> /\ chunk_number = 0 /\ previous_summary = None
    /\ output = <<>> /\ llm_calls = <<>> /\ config = EmptyDict
    /\ local_conf = Absent /\ default_conf \in TempConfs /\ app_conf = Absent
    /\ json_conf = JsonAbsent
    /\ IdleHandler /\ IdleExtract /\ IdleFormat

SpecTemp == InitTemp /\ [][Next]_vars

(***************************************************************************)
(* Properties of the streaming command.                                    *)
(***************************************************************************)
N == self.chunk_size
L == Len(records)
CeilDiv(a, b) == (a + b - 1) \div b
Min(a, b) == IF a < b THEN a ELSE b

IsFinalRecord(r) == r.llm_chunk = Some("FINAL")
IsChunkRecord(r) == r.llm_chunk # None /\ ~IsFinalRecord(r)
IsCommandError(r) == r.llm_error # None

ChunkTags == {"Analyzing Chunk", "Now analyzing Chunk"}
PartAt(prompt, tags) == prompt[CHOOSE i \in 1..Len(prompt) : prompt[i].tag \in tags]
IsChunkCall(c) == \E i \in 1..Len(c.prompt) : c.prompt[i].tag \in ChunkTags
ChunkOf(c) == PartAt(c.prompt, ChunkTags).num
HasContext(prompt) ==
    \E i \in 1..Len(prompt) : prompt[i].tag = "Previous Analysis Context"
ContextText(prompt) == PartAt(prompt, {"previous_summary"}).text
EventsOf(prompt) == PartAt(prompt, {"formatted_events"}).events
CallsFor(k) == {i \in 1..Len(llm_calls) : IsChunkCall(llm_calls[i]) /\ ChunkOf(llm_calls[i]) = k}

\* the input records of chunk i
ChunkEvents(i) == SubSeq(records, (i - 1) * N + 1, Min(i * N, L))

\* C1: for a chunk size n >= 1 and an input of L records a finished run has
\* emitted ceil(L / n) per-chunk records (none when L = 0), and one record
\* tagged "FINAL" if and only if more than one chunk was produced.
C1_RecordCount ==
    pc = "done" =>
      /\ N >= 1
      /\ Len(SelectSeq(output, IsChunkRecord)) = CeilDiv(L, N)
      /\ chunk_number = CeilDiv(L, N)
      /\ (L = 0 => output = <<>>)
      /\ Len(SelectSeq(output, IsFinalRecord)) = (IF chunk_number > 1 THEN 1 ELSE 0)

C1_Witness ==
    /\ pc = "done" /\ L = 4 /\ N = 3
    /\ Len(SelectSeq(output, IsChunkRecord)) = 2
    /\ IsFinalRecord(output[3])

\* C2: records are emitted in production order: the i-th record carries the
\* chunk identifier i, each full chunk reports n events and the last one
\* L - (k-1)*n, the prompt of chunk i holds input records (i-1)*n+1 .. i*n in
\* input order, and the "FINAL" record comes after all per-chunk records.
C2_OrderAndPartition ==
    pc \in {"loop", "synth", "done"} =>
      /\ Len(output) \in {chunk_number, chunk_number + 1}
      /\ \A i \in 1..chunk_number :
           /\ output[i].llm_chunk = Some(ToString(i))
           /\ output[i].llm_event_count = Len(ChunkEvents(i))
           /\ i * N <= L => output[i].llm_event_count = N
           /\ i * N > L => output[i].llm_event_count = L - (i - 1) * N
      /\ \A j \in 1..Len(llm_calls) :
           IsChunkCall(llm_calls[j]) =>
             EventsOf(llm_calls[j].prompt) = FormatEvents(ChunkEvents(ChunkOf(llm_calls[j])))
      /\ pos = Min(chunk_number * N, L) + (IF pc = "loop" THEN Len(event_buffer) ELSE 0)
      /\ Len(output) = chunk_number + 1 =>
           /\ pc = "done"
           /\ chunk_number > 1
           /\ IsFinalRecord(output[chunk_number + 1])
      /\ pc = "done" => chunk_number * N >= L

C2_Witness ==
    /\ pc = "done" /\ L = 3 /\ N = 2
    /\ Len(output) = 3
    /\ output[1].llm_event_count = 2 /\ output[1].llm_chunk = Some("1")
    /\ output[2].llm_event_count = 1 /\ output[2].llm_chunk = Some("2")
    /\ IsFinalRecord(output[3])
    /\ Len(llm_calls) = 3

\* C3 as claimed: the prompt of chunk k > 1 holds the summary extracted from
\* the response of chunk k-1 if and only if chunk k-1 succeeded and its
\* response held a summary marker; otherwise it has no previous-context section.
C3_CarryoverOnlyWithMarker ==
    \A j \in 1..Len(llm_calls) :
      LET c == llm_calls[j] IN
      (IsChunkCall(c) /\ ChunkOf(c) > 1) =>
        LET prev == output[ChunkOf(c) - 1] IN
        /\ HasContext(c.prompt) <=>
             (prev.llm_status = "success" /\ HasMarker(prev.llm_response))
        /\ HasContext(c.prompt) => ContextText(c.prompt) = ExtractSummary(prev.llm_response)

\* C3 as amended: the prompt of chunk k > 1 holds a previous-context section,
\* with the text _extract_summary returned for the response of chunk k-1 (the
\* lines after the marker, or without a marker the stripped first 200
\* characters), if and only if chunk k-1 succeeded and that text is not empty.
C3_CarryoverOfExtractedText ==
    \A j \in 1..Len(llm_calls) :
      LET c == llm_calls[j] IN
      (IsChunkCall(c) /\ ChunkOf(c) > 1) =>
        LET prev == output[ChunkOf(c) - 1] IN
        /\ HasContext(c.prompt) <=>
             (prev.llm_status = "success" /\ ExtractSummary(prev.llm_response) # EmptyText)
        /\ HasContext(c.prompt) => ContextText(c.prompt) = ExtractSummary(prev.llm_response)

C3_Witness ==
    /\ Len(llm_calls) >= 3
    /\ output[1].llm_status = "success" /\ ~HasMarker(output[1].llm_response)
    /\ HasContext(llm_calls[2].prompt) /\ ChunkOf(llm_calls[2]) = 2
    /\ output[2].llm_status = "success" /\ HasMarker(output[2].llm_response)
    /\ IsChunkCall(llm_calls[3]) /\ ~HasContext(llm_calls[3].prompt)

\* C5: a failed LLM call is isolated to its chunk and not retried: the chunk
\* gets one POST and one record with error status, the error text and the
\* chunk's event count; the run goes on to the later chunks and never ends in
\* the command's own error record.
CallErrors == {ErrTimeout, ErrConnect, ErrRequest}
OneChunkByPartialFlush ==
    /\ chunk_number = 1
    /\ Len(output) = 1
    /\ IsChunkRecord(output[1])
    /\ output[1].llm_event_count = L
    /\ event_buffer = records

C7_ZeroOrShortGivesOneChunk ==
    (pc \in {"done", "rejected"} /\ L > 0 /\ (N = 0 \/ L < N)) => OneChunkByPartialFlush

\* C7 as amended: a chunk size of zero is rejected by the option's validator
\* (minimum 1), so the run never starts and emits nothing; with a valid chunk
\* size a non-empty input shorter than one chunk gives exactly one chunk, by
\* the partial flush, one per-chunk record and no synthesis.
C7_ZeroRejectedShortGivesOneChunk ==
    /\ N = 0 => (pc \in {"start", "rejected"} /\ output = <<>> /\ llm_calls = <<>>)
    /\ pc = "rejected" => ~ValidChunkSize(N)
    /\ (pc = "done" /\ L > 0 /\ L < N) => OneChunkByPartialFlush

C7_Witness ==
    /\ pc = "done" /\ L = 2 /\ N = 3
    /\ OneChunkByPartialFlush

\* C9: a failure of the synthesis call never propagates: the step that ends
\* a run of k > 1 chunks keeps the k per-chunk records as they are and adds
\* exactly one record tagged "FINAL", never the command's own error record.
C9_SynthesisFailureContained ==
    [][ (pc = "synth" /\ chunk_number > 1) =>
          /\ pc' = "done"
          /\ Len(output) = chunk_number
          /\ Len(output') = chunk_number + 1
          /\ SubSeq(output', 1, chunk_number) = output
          /\ \A i \in 1..chunk_number : IsChunkRecord(output'[i])
          /\ IsFinalRecord(output'[chunk_number + 1])
          /\ ~IsCommandError(output'[chunk_number + 1])
          /\ output'[chunk_number + 1].llm_status \in {"success", "error"} ]_vars

C9_Witness ==
    /\ pc = "done" /\ chunk_number = 2 /\ Len(output) = 3
    /\ IsFinalRecord(output[3])
    /\ output[3].llm_status = "error" /\ output[3].llm_response = ErrConnect
    /\ output[1].llm_status = "success" /\ output[2].llm_status = "success"

(***************************************************************************)
(* Properties of _extract_summary.                                         *)
(***************************************************************************)
XLines == SplitLines(x_response)
Last3 == SubSeq(XLines, Len(XLines) - 2, Len(XLines))

\* the response is a line "Summary", the first line with a marker, followed
\* by exactly 3 non-empty lines
MarkerThenThreeLines ==
    /\ Len(XLines) >= 4
    /\ XLines[Len(XLines) - 3] = Str("Summary")
    /\ \A i \in 1..(Len(XLines) - 4) : ~HasMarker(XLines[i])
    /\ \A i \in 1..3 : Last3[i] # EmptyText

\* C8 as claimed: for a response with a line "Summary" followed by 3
\* non-empty lines the result is those 3 lines joined by single blanks; for
\* a response without a marker it is the first 200 characters.
C8_ThreeLinesOrFirst200 ==
    x_pc = "done" =>
      /\ MarkerThenThreeLines => x_summary = Join(Last3, Str(Space))
      /\ ~HasMarker(x_response) => x_summary = Take(x_response, FallbackLen)

\* C8 as amended: when each of the 3 lines is non-blank, does not start with
\* "#" and holds no marker, the result is the 3 lines, each stripped of
\* surrounding whitespace, joined by single blanks; for a response without a
\* marker it is the first 200 characters stripped of surrounding whitespace.
C8_ThreeStrippedLinesOrStrippedFirst200 ==
    x_pc = "done" =>
      /\ ( /\ MarkerThenThreeLines
           /\ \A i \in 1..3 : /\ Strip(Last3[i]) # EmptyText
                              /\ ~StartsWith(Last3[i], Hash)
                              /\ ~HasMarker(Last3[i]) )
         => x_summary = Join([i \in 1..3 |-> Strip(Last3[i])], Str(Space))
      /\ ~HasMarker(x_response) =>
           /\ x_summary = Strip(Take(x_response, FallbackLen))
           /\ TextLen(x_summary) <= FallbackLen

C8_Witness ==
    /\ x_pc = "done"
    /\ MarkerThenThreeLines
    /\ Last3[1] = <<Run(Space, 1), Run(Letter, 1)>>
    /\ Last3[2] = Str(Letter)
    /\ Last3[3] = <<Run(Letter, LongLine)>>
    /\ x_summary = <<Run(Letter, 1), Run(Space, 1), Run(Letter, 1), Run(Space, 1),
                     Run(Letter, LongLine)>>

(***************************************************************************)
(* Properties of _format_events.                                           *)
(***************************************************************************)
FieldLines(block) == SelectSeq(block, LAMBDA l : l.tag = "Field")

C4_ProbeFailureIsValidationFailure ==
    (h_request.verb = "edit" /\ h_request.probe \in {"500", "error"}) =>
      /\ local_conf = h_before[1]
      /\ app_conf = h_before[3]
      /\ h_raised = "BadRequestException"

\* C6: the configuration returned by a list request holds, for every default
\* key, the value stored in the chosen file when the file defines it and the
\* hard-coded default otherwise; it is the full default set when neither
\* file exists or the chosen file cannot be read.
C6_ReadMergesOverDefaults ==
    h_request.verb = "list" =>
      LET f == ChosenFile(h_before[1], h_before[2])
          stored == IF f.exists /\ f.readable THEN ParseLines(f.lines, EmptyDict)
                    ELSE EmptyDict
      IN \A k \in DOMAIN HandlerDefaults :
           /\ k \in DOMAIN h_confInfo
           /\ h_confInfo[k] = IF k \in DOMAIN stored THEN stored[k] ELSE HandlerDefaults[k]

(***************************************************************************)
(* Properties of the two configuration stores.                             *)
(***************************************************************************)
\* C11: the two stores are never reconciled: a save through the JSON handler
\* writes local/llm_config.json and leaves local/dfirvault.conf,
\* default/dfirvault.conf and local/app.conf as they are, so that
\* _read_config and _load_config return what they returned before; an edit
\* through the primary handler leaves local/llm_config.json as it is.
C11_StoresNotReconciled ==
    [][ /\ h_request'.verb = "save" =>
             /\ json_conf' = JsonFile(h_request'.args)
             /\ local_conf' = local_conf
             /\ default_conf' = default_conf
             /\ app_conf' = app_conf
             /\ ReadConfig(local_conf', default_conf') = ReadConfig(local_conf, default_conf)
             /\ LoadConfig(local_conf', default_conf') = LoadConfig(local_conf, default_conf)
        /\ h_request'.verb = "edit" => json_conf' = json_conf ]_vars

\* an edit has stored the model "mistral" in local/dfirvault.conf, a later
\* save has stored "llama3" in local/llm_config.json, and both stay
C11_Witness ==
    /\ h_request.verb = "save"
    /\ json_conf.exists /\ "model" \in DOMAIN json_conf.data
    /\ json_conf.data["model"] = "llama3"
    /\ local_conf = h_before[1]
    /\ local_conf.exists /\ local_conf.readable
    /\ "model" \in DOMAIN ReadConfig(local_conf, default_conf)
    /\ ReadConfig(local_conf, default_conf)["model"] = "mistral"
    /\ LoadConfig(local_conf, default_conf)["model"] = "mistral"
    /\ app_conf = MarkConfigured

(***************************************************************************)
(* The length of the carryover digest.                                     *)
(***************************************************************************)
\* C12: for every response with a summary marker line, _extract_summary
\* collects at most five of the lines after the marker: the digest is the
\* collected lines joined by blanks, and there are never more than five.
C12_AtMostFiveLines ==
    (x_pc = "done" /\ HasMarker(x_response))
      => /\ x_summary = Join(x_lines, Str(Space))
         /\ Len(x_lines) <= SummaryLimit

(***************************************************************************)
(* The temperature of the requests.                                        *)
(***************************************************************************)
\* C13: for every temperature the option accepts (0.0 to 1.0), the
\* temperature in the options of each request to the LLM is the temperature
\* given on the command, never the configuration file's value.
C13_RequestTemperatureIsOption ==
    \A i \in 1..Len(llm_calls) : llm_calls[i].options.temperature = self.temperature

=============================================================================
